---- MODULE Spec2Model ----
(***************************************************************************)
(* A model of the autoposting subsystem of the topgg Rust SDK:             *)
(*   - SharedStats (src/autoposter/mod.rs): a snapshot behind an RwLock    *)
(*     and a semaphore used as a coalescing "dirty" signal;                *)
(*   - the Serenity and Twilight adapters, which translate gateway events  *)
(*     into snapshot updates through a guild-ID cache;                     *)
(*   - the Autoposter: construction, the background posting loop, the      *)
(*     outcome channel with recv()/receiver(), and cancellation on drop;   *)
(*   - the GetBots query builder (src/bot.rs) and its paging limits.       *)
(*                                                                         *)
(* Tasks interleave at every step.  A task is either suspended at an       *)
(* .await (and can then be cancelled on the spot) or running between two   *)
(* awaits (and then JoinHandle::abort only marks it: it is cancelled when  *)
(* it next suspends).                                                      *)
(***************************************************************************)
EXTENDS Naturals, Integers, Sequences, FiniteSets, TLC

\* ------------------------------------------------------------------ bounds
NumTasks   == 2     \* concurrent event-handler / writer invocations
MaxGuild   == 2     \* guild IDs are 1..MaxGuild
MaxPosts   == 2     \* post calls the loop may start
MaxCalls   == 3     \* recv()/receiver() calls recorded
MaxList    == 2     \* longest guild list a ready event delivers
MaxParams  == 3     \* limit() / skip() calls on one GetBots
MaxClean   == 2     \* the count of coalesced guard releases saturates here

\* -------------------------------------------------------- program constants
MinIntervalSecs == 900
MaxLimit == 500
MaxSkip  == 499
U16Max   == 65535

Tasks    == 1..NumTasks
GuildIds == 1..MaxGuild
Counts   == 0..MaxGuild
Outcomes == {"Ok", "Err"}

VARIABLES
  mode,         \* "custom" | "serenity" | "cached" | "twilight": which Handler is used
  sem,          \* SharedStats.sem: permits available
  count,        \* the snapshot's server count
  writer,       \* task holding the snapshot's write lock, 0 if none
  reading,      \* TRUE while the posting loop holds the read lock
  cacheOwner,   \* task holding the cache mutex, 0 if none
  cache,        \* the adapter's guild-ID cache
  tpc,          \* position of each handler / writer invocation
  top,          \* the operation each invocation runs
  seen,         \* available_permits() as read by each guard's drop
  loopPc,       \* position of the background posting loop
  aborted,      \* the loop was marked for cancellation while running
  snapshot,     \* the value handed to the post call in flight
  result,       \* the result of the post call that just completed
  postCalls,    \* post calls started so far
  chan,         \* outcomes queued in the unbounded channel
  ap,           \* the Autoposter: "none" | "alive" | "panicked" | "dropped"
  interval,     \* the Duration given to Autoposter::new
  receiverSlot, \* Autoposter.receiver: "some" | "none"
  rx,           \* the receiving end: "absent" | "held" | "taken" | "dropped"
  callLog,      \* recv()/receiver() calls made and how each ended
  inNew,        \* Autoposter::new has spawned the task and has not returned yet
  cleanWrites,  \* guards acquired and released, with no wait() meanwhile, since the last wait()
  guardClean,   \* the guard now held was acquired with no wait() since
  pending,      \* a guard's drop has read the permits and no wait() took a permit since
  releases,     \* guard drops completed so far (counted up to MaxPosts)
  results,      \* the results of the post calls that have ended, in order
  delivered,    \* the outcomes obtained from the receiving end, in order
  fresh,        \* a write guard was released since the loop last read the snapshot
  lateCalls,    \* post calls started since the receiving end was dropped
  botPc,        \* a GetBots: "building" | "sent"
  query,        \* GetBots.query: the parameters pushed so far
  calls         \* the limit() / skip() calls made on the GetBots, with their inputs

vars == << mode, sem, count, writer, reading, cacheOwner, cache, tpc, top, seen,
           loopPc, aborted, snapshot, result, postCalls, chan, ap, interval,
           receiverSlot, rx, callLog, inNew, cleanWrites, guardClean, pending, releases,
           results, delivered, fresh, lateCalls, botPc, query, calls >>

sharedVars == << sem, count, writer, reading >>
cacheVars  == << cacheOwner, cache >>
taskVars   == << tpc, top, seen >>
loopVars   == << loopPc, aborted, snapshot, result, postCalls, chan >>
posterVars == << ap, interval, receiverSlot, rx, callLog, inNew >>
ghostVars  == << cleanWrites, guardClean, pending, releases,
           results, delivered, fresh, lateCalls >>
botVars    == << botPc, query, calls >>

NoOp == [kind |-> "none"]

\* ------------------------------------------------------------- Duration
\* Durations around the threshold, with and without a sub-second part.
Durations == [secs : {MinIntervalSecs - 1, MinIntervalSecs}, nanos : {0, 999999999}]

\* The delays, in seconds, given to Client::new_autoposter.
DelaySeconds == {MinIntervalSecs - 1, MinIntervalSecs}

\* An as_secs that rounds to the nearest second.
AsSecsRounded(d) == IF d.nanos >= 500000000 THEN d.secs + 1 ELSE d.secs

\* Duration::as_secs: the whole seconds, the sub-second part dropped.
AsSecs(d) == d.secs

\* Duration::from_secs
FromSecs(s) == [secs |-> s, nanos |-> 0]

\* ------------------------------------------------------------- the loop
\* Positions at which the loop's future is suspended at an .await.
Suspended == {"spawned", "wait_queued", "wait_assigned", "read_queued", "post", "sleep"}
\* Positions at which the loop is being polled, between two awaits.
Running   == {"wait_poll", "read_poll", "send"}
InWait    == {"wait_poll", "wait_queued", "wait_assigned"}

\* A simple handler's loop that waits for a signal all the same.
SimpleLoopTopWaits == "wait_poll"

\* A loop that the interval alone drives: its iterations begin at the read.
LoopTopNoWait == "read_poll"

\* Where an iteration of the loop begins: at handler.stats().wait() for a handler
\* with a SharedStats; a simple handler's loop has no signal to wait for.
SharedLoopTop == "wait_poll"
SimpleLoopTop == "read_poll"
LoopTop == IF mode = "twilight" THEN SimpleLoopTop ELSE SharedLoopTop

\* A loop whose sleep returns at once.
SuspendAtNoSleep(p) ==
  IF aborted THEN "cancelled" ELSE IF p = "sleep" THEN "wait_poll" ELSE p

\* Where the loop ends up when it would suspend at p.
SuspendAt(p) == IF aborted THEN "cancelled" ELSE p

\* ------------------------------------------------------ history variables
\* History variables observe the steps of the program and never influence them.
InitHistory ==
  /\ cleanWrites = 0
  /\ guardClean = FALSE
  /\ pending = FALSE
  /\ releases = 0
  /\ results = << >>
  /\ delivered = << >>
  /\ fresh = FALSE
  /\ lateCalls = 0

\* guardClean: a write guard is held and the loop has not been inside wait()
\* since it was acquired.  cleanWrites: how many such guards were released since
\* the loop's last wait() took its first poll.  pending: a guard's drop has read
\* available_permits() and no wait() was given a permit since.  releases: the
\* guard drops that have run to their end, counted as far as post calls can go.
\* results: what each ended post call returned.  delivered: what recv() returned
\* and what the owner of a taken endpoint received.  fresh: a guard has let go
\* of the write lock since the loop last read the snapshot for a post call.
\* lateCalls: the post calls started with the receiving end already dropped.
TrackGuards ==
  /\ guardClean' = IF writer = 0 /\ writer' # 0 THEN loopPc' \notin InWait
                   ELSE IF writer' = 0 \/ loopPc' \in InWait THEN FALSE
                   ELSE guardClean
  /\ cleanWrites' = IF loopPc = "wait_poll" /\ loopPc' # "wait_poll" THEN 0
                    ELSE IF writer # 0 /\ writer' = 0 /\ guardClean /\ cleanWrites < MaxClean
                      THEN cleanWrites + 1
                    ELSE cleanWrites
  /\ pending' = IF \E t \in Tasks : tpc[t] = "drop_check" /\ tpc'[t] = "drop_add" THEN TRUE
                ELSE IF \/ loopPc = "wait_poll" /\ loopPc' = "read_poll"
                        \/ loopPc = "wait_queued" /\ loopPc' = "wait_assigned"
                  THEN FALSE
                ELSE pending
  /\ releases' = IF /\ \E t \in Tasks : tpc[t] = "drop_add" /\ tpc'[t] = "release"
                    /\ releases < MaxPosts
                   THEN releases + 1
                 ELSE releases
  /\ results' = IF loopPc = "post" /\ loopPc' = "send"
                  THEN Append(results, result')
                ELSE results
  /\ delivered' = IF /\ Len(callLog') > Len(callLog)
                     /\ callLog'[Len(callLog')][1] = "recv"
                     /\ callLog'[Len(callLog')][2] \in Outcomes
                    THEN Append(delivered, callLog'[Len(callLog')][2])
                  ELSE IF rx = "taken" /\ rx' = "taken" /\ Len(chan') < Len(chan)
                    THEN Append(delivered, Head(chan))
                  ELSE delivered
  /\ fresh' = IF writer # 0 /\ writer' = 0 THEN TRUE
              ELSE IF postCalls' > postCalls THEN FALSE
              ELSE fresh
  /\ lateCalls' = IF rx = "dropped" /\ postCalls' > postCalls THEN lateCalls + 1
                  ELSE lateCalls

\* Guard coalescing is recorded for a handler that uses SharedStats directly.
History ==
  IF mode = "custom" THEN TrackGuards ELSE UNCHANGED ghostVars

\* ------------------------------------------------------------ SharedStats
\* SharedStats::new: no permit, server count 0.
InitShared ==
  /\ sem = 0
  /\ count = 0
  /\ writer = 0
  /\ reading = FALSE

\* An add_permits that makes the permit available without waking the waiter.
AddPermitNoWake ==
  /\ loopPc' = loopPc
  /\ sem' = sem + 1

\* Semaphore::add_permits(1): a queued waiter is handed the permit directly
\* (available_permits() does not change); otherwise the permit becomes available.
AddPermit ==
  IF loopPc = "wait_queued"
    THEN /\ loopPc' = "wait_assigned"
         /\ sem' = sem
    ELSE /\ loopPc' = loopPc
         /\ sem' = sem + 1

\* The mutations a guard offers: none, replace, set_server_count, set_shard_count.
Mutations ==
  {[mut |-> "none", val |-> 0], [mut |-> "shard", val |-> 1]}
  \cup [mut : {"set", "replace"}, val : Counts]

\* A task starts using SharedStats::write.
GuardBegin(t) ==
  /\ mode = "custom"
  /\ ap \in {"none", "alive", "dropped"}
  /\ tpc[t] = "idle"
  /\ tpc' = [tpc EXCEPT ![t] = "write_wait"]
  /\ top' = [top EXCEPT ![t] = [kind |-> "guard"]]
  /\ UNCHANGED << mode, sharedVars, cacheVars, seen, loopVars, posterVars >>
  /\ History
  /\ UNCHANGED botVars

\* SharedStats::write: self.stats.write().await resolves when nobody holds the lock.
AcquireWrite(t) ==
  /\ tpc[t] = "write_wait"
  /\ writer = 0
  /\ ~reading
  /\ writer' = t
  /\ tpc' = [tpc EXCEPT ![t] = "holding"]
  /\ UNCHANGED << mode, sem, count, reading, cacheVars, top, seen, loopVars,
                  posterVars >>
  /\ History
  /\ UNCHANGED botVars

\* replace / set_server_count / set_shard_count (which has no effect) / nothing.
GuardValue(m, old) ==
  IF m.mut \in {"set", "replace"} THEN m.val ELSE old

\* A guard that skips its drop's signal when it leaves the count as it was.
GuardMutateQuietIfSame(t, m) ==
  /\ tpc[t] = "holding"
  /\ top[t].kind = "guard"
  /\ count' = GuardValue(m, count)
  /\ tpc' = [tpc EXCEPT ![t] = IF GuardValue(m, count) = count THEN "release"
                                ELSE "drop_check"]
  /\ UNCHANGED << mode, sem, writer, reading, cacheVars, top, seen, loopVars,
                  posterVars >>
  /\ History
  /\ UNCHANGED botVars

GuardMutate(t, m) ==
  /\ tpc[t] = "holding"
  /\ top[t].kind = "guard"
  /\ count' = GuardValue(m, count)
  /\ tpc' = [tpc EXCEPT ![t] = "drop_check"]
  /\ UNCHANGED << mode, sem, writer, reading, cacheVars, top, seen, loopVars,
                  posterVars >>
  /\ History
  /\ UNCHANGED botVars

\* SharedStatsGuard::drop, first half: self.sem.available_permits()
DropCheck(t) ==
  /\ tpc[t] = "drop_check"
  /\ seen' = [seen EXCEPT ![t] = sem]
  /\ tpc' = [tpc EXCEPT ![t] = "drop_add"]
  /\ UNCHANGED << mode, sharedVars, cacheVars, top, loopVars, posterVars >>
  /\ History
  /\ UNCHANGED botVars

\* A drop that adds a permit whatever available_permits() returned.
DropAddsAlways(s) == TRUE

\* A drop that never adds a permit.
DropAddsNever(s) == FALSE

\* A drop that adds a permit only when one is already available.
DropAddsInverted(s) == s >= 1

\* Whether the drop adds a permit, given what available_permits() returned.
DropAdds(s) == s < 1

\* SharedStatsGuard::drop, second half: add_permits(1) if none was available.
DropAdd(t) ==
  /\ tpc[t] = "drop_add"
  /\ IF DropAdds(seen[t])
       THEN AddPermit
       ELSE UNCHANGED << sem, loopPc >>
  /\ tpc' = [tpc EXCEPT ![t] = "release"]
  /\ seen' = [seen EXCEPT ![t] = 0]
  /\ UNCHANGED << mode, count, writer, reading, cacheVars, top, aborted,
                  snapshot, result, postCalls, chan, posterVars >>
  /\ History
  /\ UNCHANGED botVars

\* The guard's RwLockWriteGuard field is dropped after Drop::drop has run.
TaskAfterRelease(t) ==
  IF cacheOwner = t THEN "unlock_cache" ELSE "idle"

ReleaseWrite(t) ==
  /\ tpc[t] = "release"
  /\ writer' = 0
  /\ tpc' = [tpc EXCEPT ![t] = TaskAfterRelease(t)]
  /\ top' = [top EXCEPT ![t] = IF TaskAfterRelease(t) = "idle" THEN NoOp ELSE @]
  /\ UNCHANGED << mode, sem, count, reading, cacheVars, seen, loopVars, posterVars >>
  /\ History
  /\ UNCHANGED botVars

\* --------------------------------------------------- the background loop
\* The spawned task is polled for the first time.
LoopStart ==
  /\ loopPc = "spawned"
  /\ loopPc' = LoopTop
  /\ UNCHANGED << mode, sharedVars, cacheVars, taskVars, aborted, snapshot, result,
                  postCalls, chan, posterVars >>
  /\ History
  /\ UNCHANGED botVars

\* A wait that returns at once, with or without a permit.
LoopWaitNoBlock ==
  /\ loopPc = "wait_poll"
  /\ sem' = IF sem >= 1 THEN sem - 1 ELSE sem
  /\ loopPc' = "read_poll"
  /\ UNCHANGED << mode, count, writer, reading, cacheVars, taskVars, aborted,
                  snapshot, result, postCalls, chan, posterVars >>
  /\ History
  /\ UNCHANGED botVars

\* SharedStats::wait, first poll of self.sem.acquire(): take a permit if one is
\* available (and forget it), else queue as a waiter.
LoopWaitPoll ==
  /\ loopPc = "wait_poll"
  /\ IF sem >= 1
       THEN /\ sem' = sem - 1
            /\ loopPc' = "read_poll"
       ELSE /\ sem' = sem
            /\ loopPc' = SuspendAt("wait_queued")
  /\ UNCHANGED << mode, count, writer, reading, cacheVars, taskVars, aborted,
                  snapshot, result, postCalls, chan, posterVars >>
  /\ History
  /\ UNCHANGED botVars

\* SharedStats::wait resumes with the permit add_permits handed to it.
LoopWaitResume ==
  /\ loopPc = "wait_assigned"
  /\ loopPc' = "read_poll"
  /\ UNCHANGED << mode, sharedVars, cacheVars, taskVars, aborted, snapshot, result,
                  postCalls, chan, posterVars >>
  /\ History
  /\ UNCHANGED botVars

\* A post call made on a copy of the snapshot, with no read guard kept.
StartPostUnlocked ==
  /\ snapshot' = count
  /\ postCalls' = postCalls + 1
  /\ reading' = FALSE
  /\ loopPc' = SuspendAt("post")

\* handler.stats().stats.read().await and the call client.post_stats(&stats):
\* with the lock free the read guard is taken and the post call starts.
StartPost ==
  /\ snapshot' = count
  /\ postCalls' = postCalls + 1
  /\ reading' = ~aborted
  /\ loopPc' = SuspendAt("post")

LoopReadPoll ==
  /\ loopPc = "read_poll"
  /\ IF writer = 0
       THEN StartPost
       ELSE /\ loopPc' = SuspendAt("read_queued")
            /\ UNCHANGED << snapshot, postCalls, reading >>
  /\ UNCHANGED << mode, sem, count, writer, cacheVars, taskVars, aborted, result,
                  chan, posterVars >>
  /\ History
  /\ UNCHANGED botVars

LoopReadResume ==
  /\ loopPc = "read_queued"
  /\ writer = 0
  /\ StartPost
  /\ UNCHANGED << mode, sem, count, writer, cacheVars, taskVars, aborted, result,
                  chan, posterVars >>
  /\ History
  /\ UNCHANGED botVars

\* client.post_stats(&stats).await completes with r.
LoopPostDone(r) ==
  /\ loopPc = "post"
  /\ result' = r
  /\ loopPc' = "send"
  /\ UNCHANGED << mode, sharedVars, cacheVars, taskVars, aborted, snapshot,
                  postCalls, chan, posterVars >>
  /\ History
  /\ UNCHANGED botVars

\* A send that fails unless the receiving end has been taken.
SendFailsWhenHeld == rx \in {"held", "dropped"}

\* A send that succeeds whatever became of the receiving end.
SendNeverFails == FALSE

\* A send that gives up on a failed post as it does on a closed channel.
SendFailsOnErr == rx = "dropped" \/ result = "Err"

\* A send that also fails while the taken receiving end is still held.
SendFailsWhenTaken == rx \in {"taken", "dropped"}

\* A send that fails only once the Autoposter is gone as well.
SendFailsWithPoster == rx = "dropped" /\ ap = "dropped"

\* UnboundedSender::send fails once the receiving end is gone.
SendFails == rx = "dropped"

\* sender.send(..): on failure break (the task ends); else the outcome is queued,
\* the read guard is dropped at the end of the block and sleep(interval) begins.
LoopSend ==
  /\ loopPc = "send"
  /\ reading' = FALSE
  /\ snapshot' = 0
  /\ result' = "Ok"
  /\ IF SendFails
       THEN /\ loopPc' = "exit"
            /\ chan' = chan
       ELSE /\ loopPc' = SuspendAt("sleep")
            /\ chan' = Append(chan, result)
  /\ UNCHANGED << mode, sem, count, writer, cacheVars, taskVars, aborted,
                  postCalls, posterVars >>
  /\ History
  /\ UNCHANGED botVars

\* sleep(interval).await is over; the loop goes round.
LoopSleepDone ==
  /\ loopPc = "sleep"
  /\ postCalls < MaxPosts
  /\ loopPc' = LoopTop
  /\ UNCHANGED << mode, sharedVars, cacheVars, taskVars, aborted, snapshot, result,
                  postCalls, chan, posterVars >>
  /\ History
  /\ UNCHANGED botVars

\* The loop's steps, with the post call's results drawn from R.
LoopStep(R) ==
  \/ LoopStart
  \/ LoopWaitPoll
  \/ LoopWaitResume
  \/ LoopReadPoll
  \/ LoopReadResume
  \/ \E r \in R : LoopPostDone(r)
  \/ LoopSend
  \/ LoopSleepDone

\* ------------------------------------------------------------ Autoposter
InitPosterNone ==
  /\ ap = "none"
  /\ interval = FromSecs(0)
  /\ receiverSlot = "none"
  /\ rx = "absent"
  /\ callLog = << >>
  /\ inNew = FALSE
  /\ loopPc = "unspawned"
  /\ aborted = FALSE
  /\ snapshot = 0
  /\ result = "Ok"
  /\ postCalls = 0
  /\ chan = << >>

\* The state Autoposter::new leaves behind for an accepted interval d.
InitPosterAlive(d) ==
  /\ ap = "alive"
  /\ interval = d
  /\ receiverSlot = "some"
  /\ rx = "held"
  /\ callLog = << >>
  /\ inNew = FALSE
  /\ loopPc = "spawned"
  /\ aborted = FALSE
  /\ snapshot = 0
  /\ result = "Ok"
  /\ postCalls = 0
  /\ chan = << >>

\* What Autoposter::new builds once the interval is accepted: the channel, the
\* spawned loop, and the receiving end kept in the Autoposter.  From spawn(..)
\* on the task can be polled by another worker, while new has yet to return.
Construct ==
  /\ ap' = "alive"
  /\ receiverSlot' = "some"
  /\ rx' = "held"
  /\ loopPc' = "spawned"
  /\ inNew' = TRUE

\* The panic of a rejected interval: nothing is built.
Reject ==
  /\ ap' = "panicked"
  /\ UNCHANGED << receiverSlot, rx, loopPc, inNew >>

\* Autoposter::new(client, handler, interval): the assert comes first.
New(d) ==
  /\ ap = "none"
  /\ d \in Durations
  /\ interval' = d
  /\ IF AsSecs(d) >= MinIntervalSecs THEN Construct ELSE Reject
  /\ UNCHANGED << mode, sharedVars, cacheVars, taskVars, aborted, snapshot, result,
                  postCalls, chan, callLog >>
  /\ History
  /\ UNCHANGED botVars

\* Client::new_autoposter(id, seconds_delay): its own check, then Autoposter::new.
ClientNewAutoposter(s) ==
  /\ ap = "none"
  /\ s \in DelaySeconds
  /\ interval' = FromSecs(s)
  /\ IF s < MinIntervalSecs THEN Reject ELSE Construct
  /\ UNCHANGED << mode, sharedVars, cacheVars, taskVars, aborted, snapshot, result,
                  postCalls, chan, callLog >>
  /\ History
  /\ UNCHANGED botVars

\* Autoposter::new returns the Autoposter to its caller.
NewReturn ==
  /\ inNew
  /\ inNew' = FALSE
  /\ UNCHANGED << mode, sharedVars, cacheVars, taskVars, loopVars, ap, interval,
                  receiverSlot, rx, callLog >>
  /\ History
  /\ UNCHANGED botVars

\* A recv() that goes to the channel whatever the slot holds.
RecvNeverPanics(slot) == FALSE

\* self.receiver.as_mut().expect(..) panics when the slot is empty.
RecvPanics(slot) == slot = "none"

\* Autoposter::recv: panics with the slot empty; else resolves with the next
\* queued outcome (while nothing is queued the call stays pending).
Recv ==
  /\ ap = "alive"
  /\ ~inNew
  /\ Len(callLog) < MaxCalls
  /\ IF RecvPanics(receiverSlot)
       THEN /\ callLog' = Append(callLog, << "recv", "panic" >>)
            /\ chan' = chan
       ELSE /\ chan # << >>
            /\ callLog' = Append(callLog, << "recv", Head(chan) >>)
            /\ chan' = Tail(chan)
  /\ UNCHANGED << mode, sharedVars, cacheVars, taskVars, loopPc, aborted, snapshot,
                  result, postCalls, ap, interval, receiverSlot, rx, inNew >>
  /\ History
  /\ UNCHANGED botVars

\* A take() that leaves the slot as it was.
TakeKeeps(slot) == slot

\* Option::take leaves None behind.
Take(slot) == "none"

\* Autoposter::receiver: self.receiver.take().expect(..)
Receiver ==
  /\ ap = "alive"
  /\ ~inNew
  /\ Len(callLog) < MaxCalls
  /\ IF receiverSlot = "some"
       THEN /\ callLog' = Append(callLog, << "receiver", "endpoint" >>)
            /\ rx' = "taken"
       ELSE /\ callLog' = Append(callLog, << "receiver", "panic" >>)
            /\ rx' = rx
  /\ receiverSlot' = Take(receiverSlot)
  /\ UNCHANGED << mode, sharedVars, cacheVars, taskVars, loopVars, ap, interval,
                  inNew >>
  /\ History
  /\ UNCHANGED botVars

\* A receive on the taken endpoint that also consumes an available permit.
ExtRecvTakesPermit ==
  /\ rx = "taken"
  /\ chan # << >>
  /\ chan' = Tail(chan)
  /\ sem' = IF sem >= 1 THEN sem - 1 ELSE sem
  /\ UNCHANGED << mode, count, writer, reading, cacheVars, taskVars, loopPc, aborted,
                  snapshot, result, postCalls, posterVars >>
  /\ History
  /\ UNCHANGED botVars

\* The owner of the endpoint that receiver() returned receives an outcome.
ExtRecv ==
  /\ rx = "taken"
  /\ chan # << >>
  /\ chan' = Tail(chan)
  /\ UNCHANGED << mode, sharedVars, cacheVars, taskVars, loopPc, aborted, snapshot,
                  result, postCalls, posterVars >>
  /\ History
  /\ UNCHANGED botVars

\* The owner of the endpoint drops it.
ExtDropReceiver ==
  /\ rx = "taken"
  /\ rx' = "dropped"
  /\ chan' = << >>
  /\ UNCHANGED << mode, sharedVars, cacheVars, taskVars, loopPc, aborted, snapshot,
                  result, postCalls, ap, interval, receiverSlot, callLog, inNew >>
  /\ History
  /\ UNCHANGED botVars

\* A cancellation that drops the future without releasing its read guard.
AbortKeepsGuard ==
  IF loopPc \in Suspended
    THEN /\ loopPc' = "cancelled"
         /\ sem' = IF loopPc = "wait_assigned" THEN sem + 1 ELSE sem
         /\ reading' = reading
         /\ snapshot' = snapshot
         /\ aborted' = aborted
    ELSE /\ aborted' = (loopPc \in Running)
         /\ UNCHANGED << loopPc, sem, reading, snapshot >>

\* JoinHandle::abort.  A task suspended at an .await is cancelled there: its
\* future is dropped, which returns a permit that was assigned to its acquire()
\* and releases its read guard.  A task that is being polled is only marked.
Abort ==
  IF loopPc \in Suspended
    THEN /\ loopPc' = "cancelled"
         /\ sem' = IF loopPc = "wait_assigned" THEN sem + 1 ELSE sem
         /\ reading' = FALSE
         /\ snapshot' = 0
         /\ aborted' = aborted
    ELSE /\ aborted' = (loopPc \in Running)
         /\ UNCHANGED << loopPc, sem, reading, snapshot >>

\* Drop for Autoposter: self.thread.abort(), then the fields are dropped, among
\* them the receiving end if receiver() has not taken it.
DropAutoposter ==
  /\ ap = "alive"
  /\ ~inNew
  /\ ap' = "dropped"
  /\ Abort
  /\ IF receiverSlot = "some"
       THEN /\ receiverSlot' = "none"
            /\ rx' = "dropped"
            /\ chan' = << >>
       ELSE UNCHANGED << receiverSlot, rx, chan >>
  /\ UNCHANGED << mode, count, writer, cacheVars, taskVars, result, postCalls,
                  interval, callLog, inNew >>
  /\ History
  /\ UNCHANGED botVars

\* GetBots::new: the query holds no parameter yet.
InitGetBots ==
  /\ botPc = "building"
  /\ query = << >>
  /\ calls = << >>

InitTasks ==
  /\ tpc = [t \in Tasks |-> "idle"]
  /\ top = [t \in Tasks |-> NoOp]
  /\ seen = [t \in Tasks |-> 0]
  /\ cacheOwner = 0
  /\ cache = {}

\* ------------------------------------------- SharedStats under its users
\* The steps of a task that takes a guard, changes the snapshot by one of the
\* mutations in M and drops the guard.
GuardStep(t, M) ==
  \/ GuardBegin(t)
  \/ AcquireWrite(t)
  \/ \E m \in M : GuardMutate(t, m)
  \/ DropCheck(t)
  \/ DropAdd(t)
  \/ ReleaseWrite(t)

InitStats ==
  /\ mode = "custom"
  /\ InitShared
  /\ InitTasks
  /\ InitHistory
  /\ InitPosterAlive(FromSecs(MinIntervalSecs))
  /\ InitGetBots

NextStats ==
  \/ \E t \in Tasks : GuardStep(t, Mutations)
  \/ LoopStep(Outcomes)

SpecStats == InitStats /\ [][NextStats]_vars

\* Scheduling.  The runtime keeps polling a task that can run: the loop takes
\* each step open to it (a post call that completes, a sleep that ends), and a
\* writer that asked for the write lock goes on through its guard's drop and
\* release.  tokio's RwLock serves its waiters in turn, so the loop's queued
\* read is not passed over for ever by writers that keep coming.  Nothing
\* obliges a task to begin a write.
FairStats ==
  /\ WF_vars(LoopStep(Outcomes))
  /\ SF_vars(LoopReadResume)
  /\ \A t \in Tasks :
       WF_vars(AcquireWrite(t) \/ (\E m \in Mutations : GuardMutate(t, m))
               \/ DropCheck(t) \/ DropAdd(t) \/ ReleaseWrite(t))

LiveStats == SpecStats /\ FairStats

\* ------------------------------------- SharedStats, its users and the outcomes
\* The one task that writes when a single writer is enough.
Feeder == CHOOSE t \in Tasks : \A u \in Tasks : t <= u

\* What it writes when one mutation is enough: set_server_count(1).
FeederWrite == [mut |-> "set", val |-> 1]

\* One writer using every mutation and the loop, with the owner of the
\* Autoposter calling recv() and receiver() and the owner of a taken receiving
\* end using it.
NextSignal ==
  \/ GuardStep(Feeder, Mutations)
  \/ LoopStep(Outcomes)
  \/ Recv
  \/ Receiver
  \/ ExtRecv
  \/ ExtDropReceiver

SpecSignal == InitStats /\ [][NextSignal]_vars

\* ------------------------------------------------- the end of the loop
\* A writer and the loop of an Autoposter whose receiving end may be taken and
\* dropped, and which may itself be dropped.
NextEnd ==
  \/ GuardStep(Feeder, {FeederWrite})
  \/ LoopStep(Outcomes)
  \/ Receiver
  \/ ExtDropReceiver
  \/ DropAutoposter

\* The runtime keeps polling the loop while it can run, and the writer, once it
\* has asked for the write lock, goes on to the release of its guard.
FairEnd ==
  /\ WF_vars(LoopStep(Outcomes))
  /\ WF_vars(AcquireWrite(Feeder) \/ GuardMutate(Feeder, FeederWrite)
             \/ DropCheck(Feeder) \/ DropAdd(Feeder) \/ ReleaseWrite(Feeder))

LiveEnd == InitStats /\ [][NextEnd]_vars /\ FairEnd

\* ------------------------------------------------- the Autoposter's life

Init ==
  /\ mode = "custom"
  /\ InitShared
  /\ InitTasks
  /\ InitHistory
  /\ InitPosterNone
  /\ InitGetBots

Next ==
  \/ \E d \in Durations : New(d)
  \/ \E s \in DelaySeconds : ClientNewAutoposter(s)
  \/ NewReturn
  \/ Recv
  \/ Receiver
  \/ ExtRecv
  \/ ExtDropReceiver
  \/ DropAutoposter
  \/ GuardStep(Feeder, {FeederWrite})
  \/ LoopStep(Outcomes)

Spec == Init /\ [][Next]_vars

\* -------------------------------------------------------------- adapters
RECURSIVE SeqsUpTo(_, _)
SeqsUpTo(S, n) ==
  IF n = 0 THEN {<< >>}
  ELSE SeqsUpTo(S, n - 1) \cup
       {Append(q, x) : q \in {r \in SeqsUpTo(S, n - 1) : Len(r) = n - 1}, x \in S}

\* The guild lists of ready events; an ID may repeat.
ReadyLists == SeqsUpTo(GuildIds, MaxList)

\* guilds.iter().map(|x| x.id).collect() into a HashSet
CollectIds(g) == {g[i] : i \in 1..Len(g)}

\* The events an adapter with its own cache acts on.
Events == {[kind |-> "ready"]} \cup [kind : {"create", "delete"}, id : GuildIds]

\* Any event that falls to the `_ => {}` arm.
OtherEvents == {[kind |-> "other"]}

\* The events Serenity acts on under serenity-cached, with what its map() reads
\* from them: a guild count (guilds.len() or context.cache.guilds().len()) and,
\* for guild_create, is_new.
CachedEvents ==
  [kind : {"ready", "cache_ready", "delete"}, n : Counts]
  \cup [kind : {"create"}, n : Counts, isNew : BOOLEAN]

\* A first lock that takes the write lock for a guild_create that is not new.
FirstLockAnyCreate(m, e) ==
  IF e.kind = "other" THEN "none"
  ELSE IF m = "cached" THEN "stats"
  ELSE IF m = "serenity" /\ e.kind = "ready" THEN "stats"
  ELSE "cache"

\* A first lock that sends every event for the cache mutex.
FirstLockAlwaysCache(m, e) == "cache"

\* The lock a handler asks for first: none for an ignored event, nor for a
\* guild_create that is not new under serenity-cached; the snapshot's write lock
\* for Serenity's handle_ready and for every handler under serenity-cached; the
\* cache mutex for every other handler.
FirstLock(m, e) ==
  IF e.kind = "other" THEN "none"
  ELSE IF m = "cached" THEN (IF e.kind = "create" /\ ~e.isNew THEN "none" ELSE "stats")
  ELSE IF m = "serenity" /\ e.kind = "ready" THEN "stats"
  ELSE "cache"

\* With the cache mutex held, Twilight's ready goes straight on to
\* self.server_count.write().await.
AfterCacheLock(m, e) ==
  IF m = "twilight" /\ e.kind = "ready" THEN "write_wait" ELSE "have_cache"

\* An event reaches Serenity::handle / Twilight::handle and the handler's first
\* lock().await / write().await resolves.  A handler still waiting for its first
\* lock holds nothing and has changed nothing, so it begins here, with the lock.
\* A handler with no lock to take has only to return.
HandleEvent(t, e) ==
  /\ mode \in {"serenity", "cached", "twilight"}
  /\ ap \in {"alive", "dropped"}
  /\ tpc[t] = "idle"
  /\ e \in OtherEvents \cup (IF mode = "cached" THEN CachedEvents ELSE Events)
  /\ IF FirstLock(mode, e) = "none"
       THEN /\ tpc' = [tpc EXCEPT ![t] = "return"]
            /\ UNCHANGED << writer, cacheOwner >>
       ELSE IF FirstLock(mode, e) = "stats"
       THEN /\ writer = 0
            /\ ~reading
            /\ writer' = t
            /\ cacheOwner' = cacheOwner
            /\ tpc' = [tpc EXCEPT ![t] = "holding"]
       ELSE /\ cacheOwner = 0
            /\ cacheOwner' = t
            /\ writer' = writer
            /\ tpc' = [tpc EXCEPT ![t] = AfterCacheLock(mode, e)]
  /\ top' = [top EXCEPT ![t] = e]
  /\ UNCHANGED << mode, sem, count, reading, cache, seen, loopVars, posterVars >>
  /\ History
  /\ UNCHANGED botVars

\* The handler returns with nothing done: the `_ => {}` arm, or under
\* serenity-cached a guild_create whose is_new is false.
Return(t) ==
  /\ tpc[t] = "return"
  /\ tpc' = [tpc EXCEPT ![t] = "idle"]
  /\ top' = [top EXCEPT ![t] = NoOp]
  /\ UNCHANGED << mode, sharedVars, cacheVars, seen, loopVars, posterVars >>
  /\ History
  /\ UNCHANGED botVars

\* Under serenity-cached every handler that took the write lock does
\* stats.set_server_count(<the count its event carries>); its guard is dropped
\* at the end of the function.
CachedSetCount(t) ==
  /\ mode = "cached"
  /\ tpc[t] = "holding"
  /\ top[t].kind \in {"ready", "cache_ready", "create", "delete"}
  /\ count' = top[t].n
  /\ tpc' = [tpc EXCEPT ![t] = "drop_check"]
  /\ top' = [top EXCEPT ![t] = [kind |-> top[t].kind]]
  /\ UNCHANGED << mode, sem, writer, reading, cacheVars, seen, loopVars, posterVars >>
  /\ History
  /\ UNCHANGED botVars

\* Serenity::handle_ready, self.cache.lock().await with the write guard held:
\* resolves when nobody holds the mutex.
AcquireCache(t) ==
  /\ tpc[t] = "cache_wait"
  /\ cacheOwner = 0
  /\ cacheOwner' = t
  /\ tpc' = [tpc EXCEPT ![t] = "have_cache"]
  /\ UNCHANGED << mode, sharedVars, cache, top, seen, loopVars, posterVars >>
  /\ History
  /\ UNCHANGED botVars

\* Serenity::handle_ready, after self.stats.write().await:
\* stats.set_server_count(guilds.len()), then self.cache.lock().await.  Of the
\* list only its IDs are used afterwards, so that is what the task keeps.
ReadyCount(g) == Len(g)

SerenityReadySetCount(t, g) ==
  /\ mode = "serenity"
  /\ tpc[t] = "holding"
  /\ top[t].kind = "ready"
  /\ g \in ReadyLists
  /\ count' = ReadyCount(g)
  /\ top' = [top EXCEPT ![t] = [kind |-> "ready", ids |-> CollectIds(g)]]
  /\ tpc' = [tpc EXCEPT ![t] = "cache_wait"]
  /\ UNCHANGED << mode, sem, writer, reading, cacheVars, seen, loopVars, posterVars >>
  /\ History
  /\ UNCHANGED botVars

\* Serenity::handle_ready, after self.cache.lock().await: the cache is rebuilt;
\* at the end of the function the cache guard is dropped, then the stats guard.
SerenityReadyFill(t) ==
  /\ mode = "serenity"
  /\ tpc[t] = "have_cache"
  /\ top[t].kind = "ready"
  /\ cache' = top[t].ids
  /\ cacheOwner' = 0
  /\ tpc' = [tpc EXCEPT ![t] = "drop_check"]
  /\ UNCHANGED << mode, sharedVars, top, seen, loopVars, posterVars >>
  /\ History
  /\ UNCHANGED botVars

\* Twilight::handle, Event::Ready, holding both locks: the cache is rebuilt and
\* the count is the cache's length.
TwilightReady(t, g) ==
  /\ mode = "twilight"
  /\ tpc[t] = "holding"
  /\ top[t].kind = "ready"
  /\ g \in ReadyLists
  /\ cache' = CollectIds(g)
  /\ count' = Cardinality(CollectIds(g))
  /\ top' = [top EXCEPT ![t] = [kind |-> "ready", ids |-> CollectIds(g)]]
  /\ tpc' = [tpc EXCEPT ![t] = "release"]
  /\ UNCHANGED << mode, sem, writer, reading, cacheOwner, seen, loopVars, posterVars >>
  /\ History
  /\ UNCHANGED botVars

\* An insert / remove that always reports a change.
ChangesAlways(e, c) == TRUE

\* HashSet::insert / HashSet::remove return whether the set changed.
Changes(e, c) ==
  IF e.kind = "create" THEN e.id \notin c ELSE e.id \in c

CacheAfter(e, c) ==
  IF e.kind = "create" THEN c \cup {e.id} ELSE c \ {e.id}

\* handle_guild_create / handle_guild_delete (GuildCreate / GuildDelete in
\* Twilight), after the cache lock: insert or remove; only a change goes on to
\* the snapshot's write lock, otherwise the function returns.
CacheUpdate(t) ==
  /\ tpc[t] = "have_cache"
  /\ top[t].kind \in {"create", "delete"}
  /\ cache' = CacheAfter(top[t], cache)
  /\ IF Changes(top[t], cache)
       THEN /\ tpc' = [tpc EXCEPT ![t] = "write_wait"]
            /\ top' = [top EXCEPT ![t] = [kind |-> "member"]]
            /\ cacheOwner' = cacheOwner
       ELSE /\ tpc' = [tpc EXCEPT ![t] = "idle"]
            /\ top' = [top EXCEPT ![t] = NoOp]
            /\ cacheOwner' = 0
  /\ UNCHANGED << mode, sharedVars, seen, loopVars, posterVars >>
  /\ History
  /\ UNCHANGED botVars

\* stats.set_server_count(cache.guilds.len()) / *server_count = cache.len().
\* The Serenity guard signals when dropped; Twilight's is a plain write guard.
CountFromCache(t) ==
  /\ tpc[t] = "holding"
  /\ top[t].kind = "member"
  /\ count' = Cardinality(cache)
  /\ tpc' = [tpc EXCEPT ![t] = IF mode = "twilight" THEN "release" ELSE "drop_check"]
  /\ UNCHANGED << mode, sem, writer, reading, cacheVars, top, seen, loopVars,
                  posterVars >>
  /\ History
  /\ UNCHANGED botVars

\* The cache guard is dropped at the end of the handler.
UnlockCache(t) ==
  /\ tpc[t] = "unlock_cache"
  /\ cacheOwner' = 0
  /\ tpc' = [tpc EXCEPT ![t] = "idle"]
  /\ top' = [top EXCEPT ![t] = NoOp]
  /\ UNCHANGED << mode, sharedVars, cache, seen, loopVars, posterVars >>
  /\ History
  /\ UNCHANGED botVars

HandlerStep(t) ==
  \/ \E e \in Events : HandleEvent(t, e)
  \/ AcquireCache(t)
  \/ AcquireWrite(t)
  \/ \E g \in ReadyLists : SerenityReadySetCount(t, g)
  \/ SerenityReadyFill(t)
  \/ \E g \in ReadyLists : TwilightReady(t, g)
  \/ CacheUpdate(t)
  \/ CountFromCache(t)
  \/ DropCheck(t)
  \/ DropAdd(t)
  \/ ReleaseWrite(t)
  \/ UnlockCache(t)

InitAdapter ==
  /\ mode \in {"serenity", "twilight"}
  /\ InitShared
  /\ InitTasks
  /\ InitHistory
  /\ InitPosterAlive(FromSecs(MinIntervalSecs))
  /\ InitGetBots

\* No handler reads the outcome of a post, so here every post succeeds.
NextAdapter ==
  \/ \E t \in Tasks : HandlerStep(t)
  \/ LoopStep({"Ok"})

SpecAdapter == InitAdapter /\ [][NextAdapter]_vars

\* ------------------------------------------------- Serenity, serenity-cached
CachedStep(t) ==
  \/ \E e \in CachedEvents : HandleEvent(t, e)
  \/ Return(t)
  \/ CachedSetCount(t)
  \/ DropCheck(t)
  \/ DropAdd(t)
  \/ ReleaseWrite(t)

InitCached ==
  /\ mode = "cached"
  /\ InitShared
  /\ InitTasks
  /\ InitHistory
  /\ InitPosterAlive(FromSecs(MinIntervalSecs))
  /\ InitGetBots

NextCached ==
  \/ \E t \in Tasks : CachedStep(t)
  \/ LoopStep({"Ok"})

SpecCached == InitCached /\ [][NextCached]_vars

\* ------------------------------------------------ adapters and other events
\* Every adapter, with one invocation receiving events the adapter does not act
\* on while the others receive those it does.
Bystander == CHOOSE t \in Tasks : \A u \in Tasks : u <= t

IgnoreStep(t) ==
  \/ \E e \in OtherEvents : HandleEvent(t, e)
  \/ Return(t)

InitIgnore ==
  /\ mode \in {"serenity", "cached", "twilight"}
  /\ InitShared
  /\ InitTasks
  /\ InitHistory
  /\ InitPosterAlive(FromSecs(MinIntervalSecs))
  /\ InitGetBots

NextIgnore ==
  \/ \E t \in Tasks \ {Bystander} : HandlerStep(t) \/ CachedStep(t)
  \/ IgnoreStep(Bystander)
  \/ LoopStep({"Ok"})

SpecIgnore == InitIgnore /\ [][NextIgnore]_vars

\* ------------------------------------------------------------------ GetBots
\* The u16 inputs tried: the ends of the range and both sides of each cap.
BotInputs == {0, 1, MaxSkip, MaxLimit, MaxLimit + 1, U16Max}

\* A min that returns the larger argument.
MinSwapped(a, b) == IF a <= b THEN b ELSE a

\* std::cmp::min
Min(a, b) == IF a <= b THEN a ELSE b

\* get_bots_method!: self.query.push_str(&format!("<key>={}&", value))
PushParam(k, v) == Append(query, [key |-> k, val |-> v])

\* GetBots::limit: query("limit={}&", min(limit, 500))
Limit(v) ==
  /\ botPc = "building"
  /\ Len(calls) < MaxParams
  /\ v \in BotInputs
  /\ query' = PushParam("limit", Min(v, MaxLimit))
  /\ calls' = Append(calls, << "limit", v >>)
  /\ UNCHANGED << botPc, mode, sharedVars, cacheVars, taskVars, loopVars, posterVars,
                  ghostVars >>

\* GetBots::skip: query("offset={}&", min(skip, 499))
Skip(v) ==
  /\ botPc = "building"
  /\ Len(calls) < MaxParams
  /\ v \in BotInputs
  /\ query' = PushParam("offset", Min(v, MaxSkip))
  /\ calls' = Append(calls, << "skip", v >>)
  /\ UNCHANGED << botPc, mode, sharedVars, cacheVars, taskVars, loopVars, posterVars,
                  ghostVars >>

\* IntoFuture for GetBots: the query, its parameters as pushed, goes to the client.
IntoFuture ==
  /\ botPc = "building"
  /\ botPc' = "sent"
  /\ UNCHANGED << query, calls, mode, sharedVars, cacheVars, taskVars, loopVars,
                  posterVars, ghostVars >>

NextGetBots ==
  \/ \E v \in BotInputs : Limit(v)
  \/ \E v \in BotInputs : Skip(v)
  \/ IntoFuture

SpecGetBots == Init /\ [][NextGetBots]_vars

\* ---------------------------------------------------------------- claims
\* A guard's drop (its permit check or its add_permits) takes a step.
GuardDropStep(t) ==
  /\ tpc[t] \in {"drop_check", "drop_add"}
  /\ tpc'[t] # tpc[t]

\* C1: for one SharedStats, under every interleaving of guard releases by
\* concurrent writers and wait() calls by the posting loop, the number of
\* available permits is always 0 or 1, and releasing a guard while a permit is
\* already available leaves the permit count at 1.
C1_AtMostOnePermit ==
  /\ [](sem \in {0, 1})
  /\ [][\A t \in Tasks : (GuardDropStep(t) /\ sem = 1) => sem' = 1]_vars

\* C1 witness: a guard has run its drop with a permit already available from an
\* earlier release.
C1_Witness ==
  \E t \in Tasks : tpc[t] = "release" /\ cleanWrites >= 1 /\ sem = 1

\* C2: coalescing.  After N >= 1 guards were acquired and released with no
\* wait() in between exactly one permit is available; the wait() that follows
\* does not block and leaves zero permits; a permit appears only through a guard
\* release, so a later wait() that finds none queues until the next release.
C2_Coalescing ==
  /\ [](cleanWrites >= 1 => sem = 1)
  /\ [][(cleanWrites >= 1 /\ loopPc = "wait_poll" /\ loopPc' # loopPc)
          => (loopPc' = "read_poll" /\ sem' = 0)]_vars
  /\ [][(loopPc = "wait_poll" /\ sem = 0 /\ loopPc' # loopPc)
          => loopPc' = "wait_queued"]_vars
  /\ [][(sem' > sem \/ (loopPc = "wait_queued" /\ loopPc' # loopPc))
          => \E t \in Tasks : tpc[t] = "drop_add" /\ tpc'[t] = "release"]_vars

\* C2 witness: the loop is about to call wait() after two coalesced releases.
C2_Witness ==
  cleanWrites >= 2 /\ loopPc = "wait_poll" /\ postCalls >= 1

\* C3: in membership-tracking mode, whenever no handler invocation is in
\* progress the reported server count equals the cardinality of the guild-ID
\* cache.
C3_CountIsCacheSize ==
  (\A t \in Tasks : tpc[t] = "idle") => count = Cardinality(cache)

\* C4: handling a guild-added event whose ID is cached, or a guild-removed event
\* whose ID is not, is a no-op: from taking the cache lock to its return the
\* handler leaves the cache and the count unchanged, takes no write access on
\* the snapshot and makes no permit available.
C4_DuplicateIsNoOp ==
  [][\A t \in Tasks :
       /\ ( /\ tpc[t] = "idle"
            /\ tpc'[t] = "have_cache"
            /\ \/ top'[t].kind = "create" /\ top'[t].id \in cache
               \/ top'[t].kind = "delete" /\ top'[t].id \notin cache )
          => (cache' = cache /\ count' = count /\ writer' = writer /\ sem' = sem)
       /\ ( /\ tpc[t] = "have_cache"
            /\ tpc'[t] # tpc[t]
            /\ \/ top[t].kind = "create" /\ top[t].id \in cache
               \/ top[t].kind = "delete" /\ top[t].id \notin cache )
          => ( /\ tpc'[t] = "idle"
               /\ cacheOwner' = 0
               /\ cache' = cache /\ count' = count /\ writer' = writer /\ sem' = sem )
    ]_vars

\* C4 witness: under Serenity, with no permit available and the loop having
\* posted, a handler holds the cache lock for a guild-added event whose ID is
\* cached; all that is left of it is the return.
C4_Witness ==
  \E t \in Tasks :
    /\ mode = "serenity"
    /\ tpc[t] = "have_cache"
    /\ top[t].kind = "create"
    /\ top[t].id \in cache
    /\ sem = 0
    /\ writer = 0
    /\ postCalls >= 1

\* C5: when a ready handler completes, with no other handler in progress, the
\* cache is the set of distinct IDs of the list it was given and the reported
\* server count is the cardinality of the cache.
C5_ReadyResync ==
  [][\A t \in Tasks :
       ( /\ top[t].kind = "ready"
         /\ tpc[t] # "idle"
         /\ tpc'[t] = "idle"
         /\ \A u \in Tasks \ {t} : tpc[u] = "idle" )
       => (cache' = top[t].ids /\ count' = Cardinality(cache'))
    ]_vars

\* C6: no state is reached in which two handlers each wait for a lock the other
\* holds (one holding the snapshot's write lock and waiting for the cache mutex,
\* the other holding the cache mutex and waiting for the write lock).
C6_NoLockCycle ==
  ~ \E t1, t2 \in Tasks :
      /\ t1 # t2
      /\ writer = t1 /\ tpc[t1] = "cache_wait"
      /\ cacheOwner = t2 /\ tpc[t2] = "write_wait"
\* C7: constructing an Autoposter with an interval of fewer than 900 whole
\* seconds panics with no task spawned, no channel created and no post made; an
\* interval of 900 seconds or more constructs the Autoposter.
C7_MinInterval ==
  /\ [][(ap = "none" /\ ap' # "none") =>
          IF interval'.secs < 900
            THEN /\ ap' = "panicked"
                 /\ loopPc' = "unspawned"
                 /\ rx' = "absent" /\ receiverSlot' = "none"
                 /\ postCalls' = 0 /\ chan' = << >>
            ELSE /\ ap' = "alive"
                 /\ loopPc' = "spawned"
                 /\ rx' = "held" /\ receiverSlot' = "some"
       ]_vars
  /\ [](ap = "panicked" =>
          (loopPc = "unspawned" /\ rx = "absent" /\ postCalls = 0 /\ chan = << >>))

\* C7 witness: Autoposter::new has panicked on 899.999999999 s, with a write
\* already signalled on the SharedStats.
C7_Witness ==
  /\ ap = "panicked"
  /\ interval = [secs |-> 899, nanos |-> 999999999]
  /\ sem = 1
  /\ loopPc = "unspawned"

\* C8: once the Autoposter is dropped no further post call is started and no
\* further outcome is published.
C8_NoPostAfterDrop ==
  [][ap = "dropped" => (postCalls' = postCalls /\ Len(chan') <= Len(chan))]_vars

\* C9: the first receiver() call returns the endpoint, and after it every
\* recv() and every receiver() call panics.
C9_SingleConsumption ==
  \A i \in 1..Len(callLog) :
    /\ callLog[i] = << "receiver", "endpoint" >>
         => \A j \in (i + 1)..Len(callLog) : callLog[j][2] = "panic"
    /\ (callLog[i][1] = "receiver" /\ \A j \in 1..(i - 1) : callLog[j][1] # "receiver")
         => callLog[i][2] = "endpoint"

\* C9 witness: receiver() returned the endpoint, then recv() panicked although
\* an outcome was queued, then receiver() panicked.
C9_Witness ==
  /\ Len(callLog) >= 3
  /\ callLog[1] = << "receiver", "endpoint" >>
  /\ callLog[2] = << "recv", "panic" >>
  /\ callLog[3] = << "receiver", "panic" >>
  /\ chan # << >>

\* C10 as stated: no Autoposter both yields an outcome through recv() and has
\* its endpoint extracted through receiver().
C10_NeverBothModes ==
  ~ \E i, j \in 1..Len(callLog) :
      /\ callLog[i][1] = "recv" /\ callLog[i][2] \in Outcomes
      /\ callLog[j] = << "receiver", "endpoint" >>

\* C10 amended: the endpoint is extracted at most once, and every outcome
\* obtained through recv() was obtained before receiver() extracted it.
C10_RecvOnlyBeforeReceiver ==
  \A i, j \in 1..Len(callLog) :
    callLog[j] = << "receiver", "endpoint" >> =>
      /\ (callLog[i][1] = "recv" /\ callLog[i][2] \in Outcomes) => i < j
      /\ callLog[i] = << "receiver", "endpoint" >> => i = j

\* C10 witness: recv() obtained an outcome, receiver() then extracted the
\* endpoint, and the next recv() panicked with an outcome queued.
C10_Witness ==
  /\ Len(callLog) >= 3
  /\ callLog[1][1] = "recv" /\ callLog[1][2] \in Outcomes
  /\ callLog[2] = << "receiver", "endpoint" >>
  /\ callLog[3] = << "recv", "panic" >>
  /\ chan # << >>
C12_FailureIsPublishedOnce ==
  /\ [][(loopPc = "send" /\ result = "Err" /\ rx # "dropped" /\ loopPc' # loopPc)
          => (chan' = Append(chan, "Err") /\ loopPc' \in {"sleep", "cancelled"})]_vars
  /\ [][Len(chan') > Len(chan) => (loopPc = "send" /\ chan' = Append(chan, result))]_vars
  /\ [][(loopPc = "sleep" /\ loopPc' # loopPc)
          => (loopPc' \in {"wait_poll", "cancelled"} /\ postCalls' = postCalls)]_vars
  /\ [][(loopPc \in InWait /\ loopPc' \notin InWait /\ loopPc' # "cancelled")
          => /\ loopPc' = "read_poll"
             /\ postCalls' = postCalls
             /\ (loopPc = "wait_poll" /\ sem' = sem - 1) \/ loopPc = "wait_assigned"]_vars
  /\ [][postCalls' # postCalls => loopPc \in {"read_poll", "read_queued"}]_vars

\* C12 witness: a failure is queued on the channel and the loop, still running,
\* is in a later post call.
C12_Witness ==
  /\ ap = "alive"
  /\ Len(chan) >= 1
  /\ chan[1] = "Err"
  /\ postCalls >= 2
  /\ loopPc = "post"
C15_SnapshotIsStable ==
  /\ [][postCalls' # postCalls => (writer = 0 /\ snapshot' = count /\ count' = count)]_vars
  /\ [](loopPc \in {"post", "send"} => (reading /\ writer = 0 /\ snapshot = count))
  /\ [][reading => (count' = count /\ writer' = 0)]_vars
  /\ [][count' # count => (writer # 0 /\ writer' = writer /\ ~reading)]_vars

\* C15 witness: the loop is in a later post call with a non-initial snapshot
\* while a writer waits for the write lock.
C15_Witness ==
  /\ loopPc = "post"
  /\ postCalls >= 2
  /\ snapshot # 0
  /\ \E t \in Tasks : tpc[t] = "write_wait"

\* C16: for a handler with a SharedStats the permit, not the interval, starts a
\* post: the loop reaches its read only by a wait() that was given a permit,
\* and reaches wait() from the spawn or the sleep; the post calls started never
\* outnumber the guard drops completed, so a SharedStats that was never written
\* is never posted.
C16_PermitTriggersPost ==
  /\ [](postCalls <= releases)
  /\ [](releases = 0 => (postCalls = 0 /\ sem = 0 /\ chan = << >>))
  /\ [][(loopPc # "read_poll" /\ loopPc' = "read_poll")
          => \/ loopPc = "wait_poll" /\ sem >= 1 /\ sem' = sem - 1
             \/ loopPc = "wait_assigned" /\ sem' = sem]_vars
  /\ [][postCalls' # postCalls
          => (postCalls' = postCalls + 1 /\ loopPc \in {"read_poll", "read_queued"})]_vars
  /\ [][(loopPc # "read_queued" /\ loopPc' = "read_queued") => loopPc = "read_poll"]_vars

\* C16 witness: two guards were dropped and the loop is in its second post call.
C16_Witness ==
  /\ releases = 2
  /\ postCalls = 2
  /\ loopPc = "post"
\* C17: minimum spacing.  A post attempt that has ended is followed by its send
\* and then by sleep(interval); the loop leaves the sleep only when the sleep is
\* over (or the task is cancelled), whatever guards are written meanwhile; and a
\* post call is started only after the wait() and read that follow a completed
\* sleep, the first post excepted.
C17_SleepBetweenPosts ==
  /\ [][(loopPc = "post" /\ loopPc' # loopPc)
          => (loopPc' \in {"send", "cancelled"} /\ postCalls' = postCalls)]_vars
  /\ [][(loopPc = "send" /\ loopPc' # loopPc)
          => (loopPc' \in {"sleep", "exit", "cancelled"} /\ postCalls' = postCalls)]_vars
  /\ [][(loopPc = "sleep" /\ (tpc' # tpc \/ sem' # sem \/ count' # count))
          => loopPc' = "sleep"]_vars
  /\ [][(loopPc # "wait_poll" /\ loopPc' = "wait_poll")
          => (loopPc = "sleep" \/ (loopPc = "spawned" /\ postCalls = 0))]_vars
  /\ [][(postCalls >= 1 /\ postCalls' # postCalls)
          => (loopPc \in {"read_poll", "read_queued"} /\ loopPc' \in {"post", "cancelled"})]_vars
  /\ [](loopPc \in {"post", "send", "sleep"} => postCalls >= 1)

\* C17 witness: after a post the loop is asleep although two guards have been
\* written and dropped since its last wait() and a permit is available.
C17_Witness ==
  /\ loopPc = "sleep"
  /\ postCalls >= 1
  /\ cleanWrites >= 2
  /\ sem = 1
C19_OutcomesInOrder ==
  /\ rx \in {"held", "taken"}
       => results = delivered \o chan \o (IF loopPc = "send" THEN << result >> ELSE << >>)
  /\ Len(delivered) <= Len(results)
  /\ \A i \in 1..Len(delivered) : delivered[i] = results[i]

\* C19 witness: a failure then a success were posted; the failure was obtained
\* through recv(), the success from the endpoint taken afterwards.
C19_Witness ==
  /\ results = << "Err", "Ok" >>
  /\ delivered = results
  /\ rx = "taken"
  /\ \E i \in 1..Len(callLog) : callLog[i] = << "recv", "Err" >>

\* C20: every limit(v) puts min(v, 500) and every skip(v) puts min(v, 499) in
\* the query, in the order of the calls, so no limit above 500 and no offset
\* above 499 is ever sent.
C20_PagingIsClamped ==
  /\ Len(query) = Len(calls)
  /\ \A i \in 1..Len(calls) :
       /\ calls[i][1] = "limit" =>
            query[i] = [key |-> "limit", val |-> IF calls[i][2] > 500 THEN 500 ELSE calls[i][2]]
       /\ calls[i][1] = "skip" =>
            query[i] = [key |-> "offset", val |-> IF calls[i][2] > 499 THEN 499 ELSE calls[i][2]]
  /\ \A i \in 1..Len(query) :
       /\ query[i].key = "limit" => query[i].val <= 500
       /\ query[i].key = "offset" => query[i].val <= 499

\* C20 witness: a query was sent after limit(65535), skip(65535) and skip(499).
C20_Witness ==
  /\ botPc = "sent"
  /\ calls = << << "limit", 65535 >>, << "skip", 65535 >>, << "skip", 499 >> >>

\* C21: the number of available permits is lowered only by wait(), at the poll
\* of its acquire(), and then by one; no step of a write guard (acquiring,
\* replace, set_server_count, set_shard_count, its drop, its release), of the
\* loop's read, post call, publication or sleep, of recv() or of receiver()
\* lowers it.
C21_OnlyWaitTakesPermit ==
  [][sem' < sem => (loopPc = "wait_poll" /\ loopPc' = "read_poll" /\ sem' = sem - 1)]_vars

\* C21 witness: wait() has taken the permit a released guard left, after a
\* recv() and with another guard now held.
C21_Witness ==
  /\ pending = FALSE
  /\ releases >= 1
  /\ loopPc = "read_poll"
  /\ sem = 0
  /\ \E t \in Tasks : tpc[t] = "holding"
  /\ \E i \in 1..Len(callLog) : callLog[i][1] = "recv"

\* C22: with the Autoposter alive, its receiving end in place and every post
\* call completing, under fair scheduling a write() whose guard has run its
\* drop is followed by a post call whose snapshot is read after the write lock
\* is released: the guard still holds the lock, so the next post call started
\* reads after the release.  (Post calls are counted up to MaxPosts.)
C22_EventualFlush ==
  \A k \in 0..(MaxPosts - 1) :
    (ap = "alive" /\ rx # "dropped" /\ postCalls = k /\ \E t \in Tasks : tpc[t] = "release")
      ~> (postCalls > k)

\* C22 witness: a second post call is in flight with the value a guard wrote
\* after the first post call had started.
C22_Witness ==
  /\ postCalls = MaxPosts
  /\ loopPc = "post"
  /\ releases = MaxPosts
  /\ snapshot = MaxGuild
  /\ Len(results) = MaxPosts - 1

\* C23: the loop starts a post call after its first only if a write() guard was
\* released since it read the snapshot for the previous post call.
C23_NoRedundantPost ==
  [][(postCalls >= 1 /\ postCalls' > postCalls) => fresh]_vars

\* C24: no lock that an event handler needs is held across the post call: while
\* a post call is in flight, a guild-added or guild-removed handler that changed
\* the cache and asks for the snapshot's write lock, which no other handler
\* holds, can take it and go on.  Stated for the Serenity adapter, whose loop
\* is the one in mod.rs.
C24_PostDoesNotBlockHandlers ==
  \A t \in Tasks :
    (mode = "serenity" /\ loopPc = "post" /\ tpc[t] = "write_wait"
       /\ top[t].kind = "member" /\ writer = 0)
      => ENABLED AcquireWrite(t)

\* C25 as stated: when Autoposter::new returns the task has been spawned and has
\* started no post call, whether or not the handler's SharedStats was written
\* before.
C25_NoPostAtReturn ==
  [][(inNew /\ ~inNew') => (loopPc' # "unspawned" /\ postCalls' = 0)]_vars

\* C25 amended: when Autoposter::new returns the task has been spawned; if no
\* guard of the handler's SharedStats has been dropped by then, the task has
\* started no post call and is at most waiting for the signal.
C25_NoPostAtReturnIfUnwritten ==
  [][(inNew /\ ~inNew') =>
        /\ loopPc' # "unspawned"
        /\ releases' = 0 =>
             (postCalls' = 0 /\ loopPc' \in {"spawned", "wait_poll", "wait_queued"})]_vars

\* C25 witness: new has returned for a handler never written, and the task
\* polled meanwhile is waiting for the signal.
C25_Witness ==
  /\ ap = "alive"
  /\ ~inNew
  /\ releases = 0
  /\ loopPc = "wait_queued"
  /\ callLog = << >>
  /\ tpc[Feeder] = "idle"

\* C26: an event other than those an adapter acts on is ignored: its handler
\* takes neither the cache mutex nor the snapshot's lock, and from its arrival to
\* its return the steps it takes leave the cache, the server count, the permit
\* count and both locks as they were.
C26_OtherEventsIgnored ==
  /\ [](\A t \in Tasks : top[t].kind = "other" =>
           (tpc[t] = "return" /\ writer # t /\ cacheOwner # t))
  /\ [][\A t \in Tasks :
          ((top[t].kind = "other" \/ top'[t].kind = "other") /\ tpc'[t] # tpc[t])
            => UNCHANGED << cache, count, sem, writer, cacheOwner, reading >>]_vars

\* C26 witness: an ignored event is handled while another handler holds both
\* the cache mutex and the snapshot's write lock.
C26_Witness ==
  \E t, u \in Tasks :
    /\ t # u
    /\ top[t].kind = "other"
    /\ tpc[t] = "return"
    /\ writer = u
    /\ cacheOwner = u

\* C27: under serenity-cached the guild-added handler takes the snapshot's
\* write lock and sets the server count to the host's guild count when is_new is
\* true; when is_new is false it returns with no lock taken, the count and the
\* permits unchanged.
C27_CachedCreateOnlyIfNew ==
  /\ [](\A t \in Tasks :
          (top[t].kind = "create" /\ "isNew" \in DOMAIN top[t] /\ ~top[t].isNew)
            => (tpc[t] = "return" /\ writer # t))
  /\ [][\A t \in Tasks :
          (tpc[t] = "idle" /\ tpc'[t] # "idle" /\ top'[t].kind = "create") =>
            IF top'[t].isNew
              THEN writer' = t /\ tpc'[t] = "holding"
              ELSE tpc'[t] = "return" /\ UNCHANGED << count, sem, writer >>]_vars
  /\ [][\A t \in Tasks :
          (top[t].kind = "create" /\ tpc[t] = "holding" /\ tpc'[t] # "holding")
            => (top[t].isNew /\ count' = top[t].n)]_vars
  /\ [][\A t \in Tasks :
          (top[t].kind = "create" /\ tpc[t] = "return" /\ tpc'[t] # "return")
            => UNCHANGED << count, sem, writer >>]_vars

\* C27 witness: a guild_create with is_new false is about to return, with the
\* snapshot never written and the loop still waiting for a signal.
C27_Witness ==
  \E t \in Tasks :
    /\ top[t] = [kind |-> "create", n |-> MaxGuild, isNew |-> FALSE]
    /\ tpc[t] = "return"
    /\ count = 0
    /\ sem = 0
    /\ loopPc = "wait_queued"

C29_CancelReleasesRead ==
  /\ [](loopPc \in {"exit", "cancelled"} => ~reading)
  /\ [][(ap = "alive" /\ ap' = "dropped" /\ loopPc = "post") => (reading /\ ~reading')]_vars
  /\ (tpc[Feeder] = "write_wait" /\ (ap = "dropped" \/ loopPc \in {"exit", "cancelled"}))
       ~> (writer = Feeder)

\* C29 witness: the Autoposter was dropped during a post call, which never
\* ended, and a write has since acquired its guard.
C29_Witness ==
  /\ ap = "dropped"
  /\ loopPc = "cancelled"
  /\ postCalls = 1
  /\ results = << >>
  /\ writer = Feeder
  /\ releases = 1

\* C30: every guard runs its drop when it is let go, whatever was done with it
\* (nothing, set_shard_count, replace, or set_server_count with any value, the
\* current one included), and a drop that saw no permit available adds one or
\* hands it to the waiting loop.
C30_UnchangedGuardSignals ==
  /\ [][\A t \in Tasks :
          (tpc[t] = "holding" /\ tpc'[t] # "holding") => tpc'[t] = "drop_check"]_vars
  /\ [][\A t \in Tasks :
          (tpc[t] = "drop_add" /\ tpc'[t] = "release" /\ seen[t] < 1)
            => \/ sem' = sem + 1 /\ loopPc' = loopPc
               \/ sem' = sem /\ loopPc = "wait_queued" /\ loopPc' = "wait_assigned"]_vars

\* C30 witness: the only guard dropped so far left the count at its initial
\* value, and the loop, woken by it, is posting that unchanged snapshot.
C30_Witness ==
  /\ releases = 1
  /\ count = 0
  /\ postCalls = 1
  /\ loopPc = "post"
  /\ snapshot = 0
  /\ \A t \in Tasks : tpc[t] = "idle"

====
